---- MODULE Spec2Model ----
(***************************************************************************)
(* GrayNote: the local/remote reconciliation of diary entries              *)
(* (src/utils/storage.ts) and the handlers of src/App.tsx that drive it.   *)
(*                                                                         *)
(* An EntrySet is a JavaScript object keyed by date key.  It is modelled   *)
(* as the sequence of its values in key insertion order, which is the      *)
(* order JSON.stringify and Object.values follow; AsMap forgets the order. *)
(***************************************************************************)
EXTENDS Integers, Sequences, FiniteSets, TLC

\* ------------------------------------------------------------------ bounds
MaxClock == 2

MaxStamp == 2

MaxCalls == 3

MaxTime == 3

MaxOps == 2

\* ---------------------------------------------------------- value domains
Ids == {"d1", "d2"}

LocalContents == {"x"}

RemoteContents == {"x", "y"}

TagLists == {<<>>, <<"t">>}

Null == <<"null">>

\* updated_at = 0 stands for a row whose updated_at is 0, null or absent:
\* all three are falsy in `row.updated_at || Date.now()`.
Stamps == 1..MaxStamp

Clock == 1..MaxClock

\* ------------------------------------------------- JavaScript object helpers
Keys(obj) == {obj[i].id : i \in DOMAIN obj}

Has(obj, id) == \E i \in DOMAIN obj : obj[i].id = id

Get(obj, id) == obj[CHOOSE i \in DOMAIN obj : obj[i].id = id]

\* obj[e.id] = e : an existing key keeps its position, a new key is appended
Put(obj, e) ==
  IF Has(obj, e.id)
    THEN [i \in DOMAIN obj |-> IF obj[i].id = e.id THEN e ELSE obj[i]]
    ELSE Append(obj, e)

\* the EntrySet as a mapping from id to entry, order forgotten
AsMap(obj) == [id \in Keys(obj) |-> Get(obj, id)]

\* JSON.stringify of an EntrySet: each key with the fields of its entry, in key order
JSONstringify(obj) ==
  [i \in DOMAIN obj |->
     <<obj[i].id, <<"id", obj[i].id>>, <<"date", obj[i].date>>, <<"content", obj[i].content>>,
       <<"tags", obj[i].tags>>, <<"updatedAt", obj[i].updatedAt>> >>]

\* ------------------------------------------------------- src/utils/storage.ts
isSupabaseConfigured == TRUE

mapRow(row, now) ==
  [id |-> row.id,
   date |-> row.date,
   content |-> row.content,
   tags |-> IF row.tags = Null THEN <<>> ELSE row.tags,
   updatedAt |-> IF row.updated_at = 0 THEN now ELSE row.updated_at]

RECURSIVE mapFromSupabase(_, _)
mapFromSupabase(data, now) ==
  IF Len(data) = 0 THEN <<>>
  ELSE Put(mapFromSupabase(SubSeq(data, 1, Len(data) - 1), now),
           mapRow(data[Len(data)], now))

remoteIsNewerGE(localEntry, remoteEntry) == remoteEntry.updatedAt >= localEntry.updatedAt

remoteIsNewer(localEntry, remoteEntry) == remoteEntry.updatedAt > localEntry.updatedAt

mergeStartEmpty(localEntries) == <<>>

mergeStart(localEntries) == localEntries

mergeOne(merged, remoteEntry) ==
  IF ~Has(merged, remoteEntry.id) \/ remoteIsNewer(Get(merged, remoteEntry.id), remoteEntry)
    THEN Put(merged, remoteEntry)
    ELSE merged

RECURSIVE mergeAll(_, _)
mergeAll(merged, remoteEntries) ==
  IF Len(remoteEntries) = 0 THEN merged
  ELSE mergeAll(mergeOne(merged, Head(remoteEntries)), Tail(remoteEntries))

\* fetchAndMergeEntries after listAll succeeded with rows `data` at time `now`
mergeEntries(localEntries, data, now) ==
  IF Len(data) = 0 THEN localEntries
  ELSE mergeAll(mergeStart(localEntries), mapFromSupabase(data, now))

\* ----------------------------------------------------------------- state
\* src/App.tsx and the module state of src/utils/storage.ts
VARIABLES
  session,               \* App.tsx:26   the signed-in principal, or NoSession
  isRemoteSyncDisabled,  \* storage.ts:10
  entries,               \* App.tsx:31   React state
  stored,                \* localStorage['zenjournal_entries'], <<>> when absent
  remote,                \* the rows of the remote table `entries`
  dateKey,               \* App.tsx:42
  editorHtml,            \* editorRef.current.innerHTML ("" while unmounted)
  saving,                \* App.tsx:35
  timer,                 \* App.tsx:157  a debounce timer is pending
  now,                   \* Date.now()
  calls,                 \* remote calls in flight, in the order they were issued
  nextCall,              \* number of the next remote call
  last,                  \* the handler that ran last and the effects it issued, in order
  schemaSeen             \* a handler of this sign-in session was handed the missing-table error

\* the merge trials of SpecMerge
VARIABLES mLocal, mData, mFirst, mAgain, mRerun

avars == <<session, isRemoteSyncDisabled, entries, stored, remote, dateKey, editorHtml,
           saving, timer, now, calls, nextCall, last, schemaSeen>>

mvars == <<mLocal, mData, mFirst, mAgain, mRerun>>

\* the auto-save effect on the clock (SpecAuto) and the last confirmed delete (SpecDelete)
VARIABLES
  timerAt,               \* App.tsx:157  when the pending timeout was set
  inputAt,               \* App.tsx:454  when the last input event arrived, 0 before the first
  timers,                \* the timeouts set and neither fired nor cleared
  deleted                \* App.tsx:333  the id deleted last and not saved since, or NoId

cvars == <<timerAt, inputAt, timers, deleted>>

\* the editor and the style applicator (SpecStyle)
VARIABLES
  doc,                   \* App.tsx:41   the DOM under editorRef.current
  outside,               \* the DOM of the page outside the editor
  sel,                   \* window.getSelection()
  settings,              \* App.tsx:32
  selectionFontSize,     \* App.tsx:39
  styled,                \* the operation that ran last and the state it started from
  ops                    \* number of style and typing operations so far

svars == <<doc, outside, sel, settings, selectionFontSize, styled, ops>>

\* localStorage as text, and what the loaders of storage.ts made of it (SpecLoad)
VARIABLES
  entriesBlob,           \* storage.ts:24  localStorage['zenjournal_entries']
  settingsBlob,          \* storage.ts:50  localStorage['zenjournal_settings']
  loadedEntries,         \* storage.ts:22  the outcome of loadEntries()
  loadedSettings         \* storage.ts:40  the outcome of loadSettings()

lvars == <<entriesBlob, settingsBlob, loadedEntries, loadedSettings>>

\* several principals on one device (SpecDevice)
VARIABLES
  made,                  \* the entries each principal's sessions saved or fetched
  timerKey               \* App.tsx:157  the dateKey the pending timeout closes over

dvars == <<made, timerKey>>

vars == <<avars, mvars, cvars, svars, lvars, dvars>>

NoSession == "none"

Users == {"u1"}

\* the documents the editor can hold
AppContents == {"", "x"}

\* what a remote call can answer: rows or success, the missing-table error
\* (code 42P01 / "Could not find the table"), any other error result, or a
\* rejected promise (upsert and delete throw every error result themselves, so
\* for them "thrown" is the same case as "error")
Outcomes == {"ok", "schemaMissing", "error", "thrown"}

\* const { [id]: deleted, ...rest } = obj
Remove(obj, id) == SelectSeq(obj, LAMBDA e : e.id # id)

\* obj[key]?.content || ''
contentOf(obj, key) == IF Has(obj, key) THEN Get(obj, key).content ELSE ""

NoEntry(key) == [id |-> key, date |-> key, content |-> "", tags |-> <<>>, updatedAt |-> 0]

\* a remote call in flight: what was sent and what its continuation closes over
NewCall(kind, localEntries, key, entry) ==
  [kind |-> kind, local |-> localEntries, key |-> key, entry |-> entry]

RemoveAt(seq, i) == SubSeq(seq, 1, i - 1) \o SubSeq(seq, i + 1, Len(seq))

\* the guard clause of the three sync helpers
remoteEnabled == isSupabaseConfigured /\ ~isRemoteSyncDisabled

\* the value fetchAndMergeEntries resolves to, given the answer of listAll
fetchResult(localEntries, resp, data, t) ==
  IF resp = "ok" THEN mergeEntries(localEntries, data, t) ELSE localEntries

flagUnchangedByFetch(flag, resp) == flag

flagTripsOnAnyError(flag, resp) == IF resp # "ok" THEN TRUE ELSE flag

\* isRemoteSyncDisabled after fetchAndMergeEntries handled the answer of listAll
flagAfterFetch(flag, resp) == IF resp = "schemaMissing" THEN TRUE ELSE flag

flagClearedOnSuccess(flag, resp) == IF resp = "ok" THEN FALSE ELSE flag

\* isRemoteSyncDisabled after upsertEntryToSupabase / deleteEntryFromSupabase
\* handled the answer: the catch block only logs
flagAfterWrite(flag, resp) == flag

persistAlways(mergedData, localData) == TRUE

\* the test of the then-callback of the data loading effect
shouldPersist(mergedData, localData) == JSONstringify(mergedData) # JSONstringify(localData)

storeRolledBack(storedNow, entry, resp) ==
  IF resp = "ok" THEN storedNow ELSE Remove(storedNow, entry.id)

\* the Entry Store after the promise of upsertEntryToSupabase settled
storeAfterUpsert(storedNow, entry, resp) == storedNow

toRow(entry) ==
  [id |-> entry.id, date |-> entry.date, content |-> entry.content, tags |-> entry.tags,
   updated_at |-> entry.updatedAt]

Did(op, resp, effects) == [op |-> op, resp |-> resp, effects |-> effects]

sawSchemaMissing(resp) == schemaSeen \/ (session # NoSession /\ resp = "schemaMissing")

\* ------------------------------------------------------------------- Init
\* what a start can find in localStorage and in the remote table: a first
\* start; an entry saved earlier that the remote holds a newer, tagged version
\* of; an entry saved earlier and a remote row for another date with no
\* updated_at and no tags
InitStores ==
  {<< <<>>, <<>> >>,
   << <<[id |-> "d1", date |-> "d1", content |-> "x", tags |-> <<>>, updatedAt |-> 1]>>,
      <<[id |-> "d1", date |-> "d1", content |-> "y", tags |-> <<"t">>, updated_at |-> MaxStamp]>> >>,
   << <<[id |-> "d1", date |-> "d1", content |-> "x", tags |-> <<>>, updatedAt |-> 1]>>,
      <<[id |-> "d2", date |-> "d2", content |-> "y", tags |-> Null, updated_at |-> 0]>> >>}

MergeQuiet ==
  /\ mLocal = <<>>
  /\ mData = <<>>
  /\ mFirst = [done |-> FALSE, at |-> 0, val |-> <<>>]
  /\ mAgain = [done |-> FALSE, val |-> <<>>]
  /\ mRerun = [done |-> FALSE, val |-> <<>>]

NoId == "none"

\* setTimeout(..., 2000), in seconds
Debounce == 2

CoordQuiet ==
  /\ timerAt = 1
  /\ inputAt = 0
  /\ timers = 1
  /\ deleted = NoId

\* useState<number | null>(null)
NullSize == -1

NoSelection == [where |-> "none", from |-> 0, to |-> 0, path |-> <<>>]

\* the defaults of loadSettings()
DefaultSettings ==
  [darkMode |-> FALSE, editorFont |-> "inter", editorFontSize |-> 16,
   editorColor |-> "#111827", sidebarOpen |-> TRUE]

\* loadSettings(): the defaults, or what an earlier session stored
InitSettings ==
  {DefaultSettings,
   [darkMode |-> TRUE, editorFont |-> "serif", editorFontSize |-> 14,
    editorColor |-> "#F3F4F6", sidebarOpen |-> FALSE]}

NoSnapshot ==
  [doc |-> <<>>, outside |-> <<>>, sel |-> NoSelection, settings |-> DefaultSettings,
   selectionFontSize |-> NullSize, op |-> "none", size |-> 0]

Ran(op, size, pre, created) == [op |-> op, size |-> size, pre |-> pre, created |-> created]

StyleQuiet ==
  /\ doc = <<>>
  /\ outside = <<>>
  /\ sel = NoSelection
  /\ settings = DefaultSettings
  /\ selectionFontSize = NullSize
  /\ styled = Ran("none", 0, NoSnapshot, {})
  /\ ops = 0

\* localStorage.getItem(key): the item is absent (null), or a text of tokens;
\* `access` says whether the page may use localStorage at all
Item(access, present, text) == [access |-> access, present |-> present, text |-> text]

NoItem == Item("ok", FALSE, <<>>)

NotLoaded == [done |-> FALSE, raised |-> FALSE, value |-> <<>>]

LoadQuiet ==
  /\ entriesBlob = NoItem
  /\ settingsBlob = NoItem
  /\ loadedEntries = NotLoaded
  /\ loadedSettings = NotLoaded

DeviceQuiet ==
  /\ made = {}
  /\ timerKey = "d1"

AppStart ==
  /\ session = NoSession
  /\ isRemoteSyncDisabled = FALSE
  /\ entries = <<>>
  /\ dateKey = "d1"
  /\ editorHtml = ""
  /\ saving = FALSE
  /\ timer = TRUE
  /\ now = 1
  /\ calls = <<>>
  /\ nextCall = 1
  /\ last = Did("init", "none", <<>>)
  /\ schemaSeen = FALSE

Init ==
  /\ AppStart
  /\ \E p \in InitStores : stored = p[1] /\ remote = p[2]
  /\ MergeQuiet
  /\ CoordQuiet
  /\ StyleQuiet
  /\ LoadQuiet
  /\ DeviceQuiet

\* ---------------------------------------------------------------- actions
\* setSession(session) and the data loading effect it triggers
Login(u) ==
  /\ session = NoSession
  /\ session' = u
  /\ entries' = stored
  /\ IF remoteEnabled
       THEN /\ nextCall <= MaxCalls
            /\ calls' = Append(calls, NewCall("listAll", stored, dateKey, NoEntry(dateKey)))
            /\ nextCall' = nextCall + 1
            /\ last' = Did("login", "none", <<"listAll">>)
       ELSE /\ UNCHANGED <<calls, nextCall>>
            /\ last' = Did("login", "none", <<>>)
  /\ editorHtml' = contentOf(stored, dateKey)
  /\ timer' = TRUE
  /\ schemaSeen' = FALSE
  /\ UNCHANGED <<isRemoteSyncDisabled, stored, remote, dateKey, saving, now, mvars>>

\* handleLogout and the auth listener: setSession(null), setEntries({})
Logout ==
  /\ session # NoSession
  /\ session' = NoSession
  /\ entries' = <<>>
  /\ editorHtml' = ""
  /\ timer' = TRUE
  /\ last' = Did("logout", "none", <<>>)
  /\ schemaSeen' = FALSE
  /\ UNCHANGED <<isRemoteSyncDisabled, stored, remote, dateKey, saving, now, calls, nextCall, mvars>>

\* onInput: the user edits the document
Input ==
  /\ session # NoSession
  /\ \E h \in AppContents \ {editorHtml} : editorHtml' = h
  /\ timer' = TRUE
  /\ last' = Did("input", "none", <<>>)
  /\ UNCHANGED <<session, isRemoteSyncDisabled, entries, stored, remote, dateKey, saving, now,
                 calls, nextCall, schemaSeen, mvars>>

\* onDateSelect and the load-entry-into-editor effect
SelectDate ==
  /\ session # NoSession
  /\ \E d \in Ids \ {dateKey} : dateKey' = d /\ editorHtml' = contentOf(entries, d)
  /\ timer' = TRUE
  /\ last' = Did("selectDate", "none", <<>>)
  /\ UNCHANGED <<session, isRemoteSyncDisabled, entries, stored, remote, saving, now,
                 calls, nextCall, schemaSeen, mvars>>

\* the body of handleSave, run by the Save button or by the debounce timer;
\* `key` is the dateKey the callback closes over
handleSaveAs(op, key) ==
  LET newEntry == [id |-> key, date |-> key, content |-> editorHtml,
                   tags |-> <<>>, updatedAt |-> now]
      newEntries == Put(entries, newEntry)
      issue == session # NoSession /\ remoteEnabled
  IN /\ entries' = newEntries
     /\ stored' = newEntries
     /\ IF issue
          THEN /\ nextCall <= MaxCalls
               /\ calls' = Append(calls, NewCall("upsert", <<>>, key, newEntry))
               /\ nextCall' = nextCall + 1
               /\ saving' = TRUE
               /\ last' = Did(op, "none", <<"saveEntries", "upsert">>)
          ELSE /\ UNCHANGED <<calls, nextCall>>
               /\ saving' = FALSE
               /\ last' = Did(op, "none", <<"saveEntries">>)
     /\ editorHtml' = contentOf(newEntries, dateKey)
     /\ timer' = TRUE
     /\ UNCHANGED <<session, isRemoteSyncDisabled, remote, dateKey, now, schemaSeen, mvars>>

\* handleSave of the current render
handleSave(op) == handleSaveAs(op, dateKey)

SaveButtonNeverDisabled == FALSE

\* <button onClick={onSave} disabled={saving}>
SaveButtonDisabled == saving

\* the Save button, disabled while saving
ManualSave ==
  /\ session # NoSession
  /\ ~SaveButtonDisabled
  /\ handleSave("handleSave")

contentChangedAlways(currentHtml, currentStored, key) == TRUE

\* const contentChanged = currentHtml !== (currentStored?.content || '')
contentChanged(currentHtml, currentStored, key) == currentHtml # contentOf(currentStored, key)

\* the callback of setTimeout, which closes over the dateKey `key`
timeoutCallback(key) ==
  /\ timer
  /\ IF session # NoSession /\ contentChanged(editorHtml, entries, key)
       THEN handleSaveAs("autoSave", key)
       ELSE /\ timer' = FALSE
            /\ last' = Did("timerNoop", "none", <<>>)
            /\ UNCHANGED <<session, isRemoteSyncDisabled, entries, stored, remote, dateKey,
                           editorHtml, saving, now, calls, nextCall, schemaSeen, mvars>>

\* the debounce timer elapses; its callback is the one of the current render
TimerFire == timeoutCallback(dateKey)

\* handleDelete, confirmed
HandleDelete ==
  /\ session # NoSession
  /\ entries' = Remove(entries, dateKey)
  /\ stored' = Remove(entries, dateKey)
  /\ IF remoteEnabled
       THEN /\ nextCall <= MaxCalls
            /\ calls' = Append(calls, NewCall("delete", <<>>, dateKey, NoEntry(dateKey)))
            /\ nextCall' = nextCall + 1
            /\ last' = Did("handleDelete", "none", <<"saveEntries", "delete">>)
       ELSE /\ UNCHANGED <<calls, nextCall>>
            /\ last' = Did("handleDelete", "none", <<"saveEntries">>)
  /\ editorHtml' = ""
  /\ timer' = TRUE
  /\ UNCHANGED <<session, isRemoteSyncDisabled, remote, dateKey, saving, now, schemaSeen, mvars>>

\* the clock advances
Tick ==
  /\ now < MaxClock
  /\ now' = now + 1
  /\ UNCHANGED <<session, isRemoteSyncDisabled, entries, stored, remote, dateKey, editorHtml,
                 saving, timer, calls, nextCall, last, schemaSeen, mvars>>

\* the rows the remote table holds after it answered call c with r
remoteAfter(c, r) ==
  IF r # "ok" THEN remote
  ELSE IF c.kind = "upsert" THEN Put(remote, toRow(c.entry))
  ELSE IF c.kind = "delete" THEN Remove(remote, c.key)
  ELSE remote

\* listAll is answered with r; fetchAndMergeEntries resumes, then the
\* then-callback of the data loading effect runs
FetchDone ==
  \E i \in DOMAIN calls, r \in Outcomes :
    /\ calls[i].kind = "listAll"
    /\ LET c == calls[i]
           mergedData == fetchResult(c.local, r, remote, now)
       IN IF shouldPersist(mergedData, c.local)
            THEN /\ entries' = mergedData
                 /\ stored' = mergedData
                 /\ editorHtml' = IF session # NoSession THEN contentOf(mergedData, dateKey) ELSE ""
                 /\ timer' = TRUE
                 /\ last' = Did("fetchDone", r, <<"saveEntries">>)
            ELSE /\ UNCHANGED <<entries, stored, editorHtml, timer>>
                 /\ last' = Did("fetchDone", r, <<>>)
    /\ isRemoteSyncDisabled' = flagAfterFetch(isRemoteSyncDisabled, r)
    /\ calls' = RemoveAt(calls, i)
    /\ schemaSeen' = sawSchemaMissing(r)
    /\ UNCHANGED <<session, remote, dateKey, saving, now, nextCall, mvars>>

savingUntilSuccess(flag, resp) == IF resp = "ok" THEN FALSE ELSE flag

\* .then(() => setSaving(false)).catch(() => setSaving(false))
savingAfterUpsert(flag, resp) == FALSE

\* upsert is answered with r; upsertEntryToSupabase resumes, then setSaving(false)
UpsertDone ==
  \E i \in DOMAIN calls, r \in Outcomes \ {"thrown"} :
    /\ calls[i].kind = "upsert"
    /\ remote' = remoteAfter(calls[i], r)
    /\ isRemoteSyncDisabled' = flagAfterWrite(isRemoteSyncDisabled, r)
    /\ stored' = storeAfterUpsert(stored, calls[i].entry, r)
    /\ saving' = savingAfterUpsert(saving, r)
    /\ calls' = RemoveAt(calls, i)
    /\ last' = Did("upsertDone", r, <<>>)
    /\ schemaSeen' = sawSchemaMissing(r)
    /\ UNCHANGED <<session, entries, dateKey, editorHtml, timer, now, nextCall, mvars>>

\* delete is answered with r; deleteEntryFromSupabase resumes
DeleteDone ==
  \E i \in DOMAIN calls, r \in Outcomes \ {"thrown"} :
    /\ calls[i].kind = "delete"
    /\ remote' = remoteAfter(calls[i], r)
    /\ isRemoteSyncDisabled' = flagAfterWrite(isRemoteSyncDisabled, r)
    /\ calls' = RemoveAt(calls, i)
    /\ last' = Did("deleteDone", r, <<>>)
    /\ schemaSeen' = sawSchemaMissing(r)
    /\ UNCHANGED <<session, entries, stored, dateKey, editorHtml, saving, timer, now,
                   nextCall, mvars>>

Next ==
  \/ (\E u \in Users : Login(u)) /\ UNCHANGED <<cvars, svars, lvars, dvars>>
  \/ Logout /\ UNCHANGED <<cvars, svars, lvars, dvars>>
  \/ Input /\ UNCHANGED <<cvars, svars, lvars, dvars>>
  \/ SelectDate /\ UNCHANGED <<cvars, svars, lvars, dvars>>
  \/ ManualSave /\ UNCHANGED <<cvars, svars, lvars, dvars>>
  \/ TimerFire /\ UNCHANGED <<cvars, svars, lvars, dvars>>
  \/ HandleDelete /\ UNCHANGED <<cvars, svars, lvars, dvars>>
  \/ Tick /\ UNCHANGED <<cvars, svars, lvars, dvars>>
  \/ FetchDone /\ UNCHANGED <<cvars, svars, lvars, dvars>>
  \/ UpsertDone /\ UNCHANGED <<cvars, svars, lvars, dvars>>
  \/ DeleteDone /\ UNCHANGED <<cvars, svars, lvars, dvars>>

Spec == Init /\ [][Next]_vars

\* ------------------------------------------- a delete and the calls around it
\* The user works, deletes the entry of the current date once and then leaves
\* the application alone; every remote call is answered with success.
DeleteLogin ==
  /\ \E u \in Users : Login(u)
  /\ UNCHANGED cvars
  /\ UNCHANGED <<svars, lvars, dvars>>

DeleteInput ==
  /\ deleted = NoId
  /\ Input
  /\ UNCHANGED cvars
  /\ UNCHANGED <<svars, lvars, dvars>>

DeleteSave ==
  /\ deleted = NoId
  /\ ManualSave
  /\ UNCHANGED cvars
  /\ UNCHANGED <<svars, lvars, dvars>>

DeleteTimerFire ==
  /\ TimerFire
  /\ UNCHANGED cvars
  /\ UNCHANGED <<svars, lvars, dvars>>

DeleteConfirmed ==
  /\ deleted = NoId
  /\ Has(entries, dateKey)
  /\ HandleDelete
  /\ deleted' = dateKey
  /\ UNCHANGED <<timerAt, inputAt, timers>>
  /\ UNCHANGED <<svars, lvars, dvars>>

DeleteTick ==
  /\ Tick
  /\ UNCHANGED cvars
  /\ UNCHANGED <<svars, lvars, dvars>>

DeleteFetchDone ==
  /\ FetchDone
  /\ last'.resp = "ok"
  /\ UNCHANGED cvars
  /\ UNCHANGED <<svars, lvars, dvars>>

DeleteUpsertDone ==
  /\ UpsertDone
  /\ last'.resp = "ok"
  /\ UNCHANGED cvars
  /\ UNCHANGED <<svars, lvars, dvars>>

DeleteDeleteDone ==
  /\ DeleteDone
  /\ last'.resp = "ok"
  /\ UNCHANGED cvars
  /\ UNCHANGED <<svars, lvars, dvars>>

NextDelete ==
  \/ DeleteLogin
  \/ DeleteInput
  \/ DeleteSave
  \/ DeleteTimerFire
  \/ DeleteConfirmed
  \/ DeleteTick
  \/ DeleteFetchDone
  \/ DeleteUpsertDone
  \/ DeleteDeleteDone

SpecDelete == Init /\ [][NextDelete]_vars

\* the call reads or writes the row of id
Concerns(c, id) == c.kind = "listAll" \/ c.key = id

\* C11: after a confirmed delete of the entry of a date key, with the user
\* signed in, sync enabled and every call answered with success, once no call
\* that concerns the id is in flight any more (the upsert that was in flight
\* when the delete was requested included), the id is in neither the Entry
\* Store nor the remote table.
C11_DeleteRemovesFromBothStores ==
  (deleted # NoId /\ \A i \in DOMAIN calls : ~Concerns(calls[i], deleted)) =>
    ~Has(stored, deleted) /\ ~Has(remote, deleted)

\* ------------------------------------------- the auto-save effect on the clock
\* The effect of App.tsx:156-168 runs again, clearing its timeout and setting a
\* new one, whenever editorContent, handleSave, dateKey or entries changed.
\* The user stays on one date.
restartKeepsOld(n) == n + 1

\* return () => clearTimeout(timer), then setTimeout(...)
restartTimer(n) == (IF n > 0 THEN n - 1 ELSE 0) + 1

deadlineNow(setAt) == setAt

\* the time the timeout set at setAt elapses
deadline(setAt) == setAt + Debounce

timerKept(setAt, t) == setAt

\* the time the pending timeout was set, after the effect ran again at time t
timerAfterChange(setAt, t) == t

Restart ==
  /\ timerAt' = timerAfterChange(timerAt, now)
  /\ timers' = restartTimer(timers)

AutoLogin ==
  /\ \E u \in Users : Login(u)
  /\ Restart
  /\ UNCHANGED <<inputAt, deleted>>
  /\ UNCHANGED <<svars, lvars, dvars>>

AutoLogout ==
  /\ Logout
  /\ Restart
  /\ UNCHANGED <<inputAt, deleted>>
  /\ UNCHANGED <<svars, lvars, dvars>>

AutoInput ==
  /\ Input
  /\ Restart
  /\ inputAt' = now
  /\ UNCHANGED deleted
  /\ UNCHANGED <<svars, lvars, dvars>>

AutoManualSave ==
  /\ ManualSave
  /\ Restart
  /\ UNCHANGED <<inputAt, deleted>>
  /\ UNCHANGED <<svars, lvars, dvars>>

\* the timeout elapses; a save changes entries, so the effect runs again
AutoTimerFire ==
  /\ now >= deadline(timerAt)
  /\ TimerFire
  /\ IF last'.op = "autoSave"
       THEN /\ timerAt' = timerAfterChange(timerAt, now)
            /\ timers' = restartTimer(timers - 1)
       ELSE /\ timers' = timers - 1
            /\ UNCHANGED timerAt
  /\ UNCHANGED <<inputAt, deleted>>
  /\ UNCHANGED <<svars, lvars, dvars>>

AutoHandleDelete ==
  /\ HandleDelete
  /\ Restart
  /\ UNCHANGED <<inputAt, deleted>>
  /\ UNCHANGED <<svars, lvars, dvars>>

AutoFetchDone ==
  /\ FetchDone
  /\ IF last'.effects # <<>> THEN Restart ELSE UNCHANGED <<timerAt, timers>>
  /\ UNCHANGED <<inputAt, deleted>>
  /\ UNCHANGED <<svars, lvars, dvars>>

AutoUpsertDone ==
  /\ UpsertDone
  /\ UNCHANGED cvars
  /\ UNCHANGED <<svars, lvars, dvars>>

AutoDeleteDone ==
  /\ DeleteDone
  /\ UNCHANGED cvars
  /\ UNCHANGED <<svars, lvars, dvars>>

\* time passes
Elapse ==
  /\ now < MaxTime
  /\ now' = now + 1
  /\ UNCHANGED <<session, isRemoteSyncDisabled, entries, stored, remote, dateKey, editorHtml,
                 saving, timer, calls, nextCall, last, schemaSeen, mvars, cvars, svars, lvars, dvars>>

NextAuto ==
  \/ AutoLogin
  \/ AutoLogout
  \/ AutoInput
  \/ AutoManualSave
  \/ AutoTimerFire
  \/ AutoHandleDelete
  \/ AutoFetchDone
  \/ AutoUpsertDone
  \/ AutoDeleteDone
  \/ Elapse

\* every upsert in flight is answered at some time
SpecAuto == Init /\ [][NextAuto]_vars /\ WF_vars(AutoUpsertDone)

\* ------------------------------------------------------ the style applicator
\* The DOM is the sequence of its characters in document order, each with the
\* chain of elements around it, outermost first.  An element is a SPAN or a
\* FONT; `style` is its inline font-size in px, `size` the size its font size
\* attribute renders at, 0 for none; `mark` says that it carries the temporary
\* font name.  A character with no sized element around it has size 0: the
\* size the style sheet gives the editor.
FontSizes == {14, 18, 24}

TypedChars == {"t"}

Zwsp == "zwsp"

Elem(id, tag, style, size, mark) ==
  [id |-> id, tag |-> tag, style |-> style, size |-> size, mark |-> mark]

Char(ch, path) == [ch |-> ch, path |-> path]

\* element.innerText, character by character
textOf(d) == [i \in DOMAIN d |-> d[i].ch]

RECURSIVE sizeAt(_, _)
sizeAt(path, k) ==
  IF k = 0 THEN 0
  ELSE IF path[k].style # 0 THEN path[k].style
  ELSE IF path[k].tag = "FONT" /\ path[k].size # 0 THEN path[k].size
  ELSE sizeAt(path, k - 1)

\* window.getComputedStyle(element).fontSize of the innermost element
effectiveSize(path) == sizeAt(path, Len(path))

ElemIds(d) == UNION {{d[i].path[j].id : j \in DOMAIN d[i].path} : i \in DOMAIN d}

MaxId(ids) == IF ids = {} THEN 0 ELSE CHOOSE n \in ids : \A m \in ids : m <= n

\* the characters of a selection
Selected(s) == (s.from + 1)..s.to

isCollapsed(s) == s.from = s.to

Within(path, id) == \E j \in DOMAIN path : path[j].id = id

\* every character of the element is selected
fullySelected(d, S, id) == \A i \in DOMAIN d : Within(d[i].path, id) => i \in S

\* the outermost element around character i that is selected as a whole
firstFull(d, S, i) ==
  LET p == d[i].path
  IN IF \E k \in DOMAIN p : fullySelected(d, S, p[k].id)
       THEN CHOOSE k \in DOMAIN p :
              /\ fullySelected(d, S, p[k].id)
              /\ \A l \in 1..(k - 1) : ~fullySelected(d, S, p[l].id)
       ELSE Len(p) + 1

\* document.execCommand('fontName', false, tempFontName) on the characters S.
\* The browser decides where the temporary font goes: on a new element around
\* the text inside every element ("inner"), on a new element around the
\* outermost elements selected as a whole ("outer"), or on the outermost SPAN
\* selected as a whole itself ("reuse").
Placements == {"inner", "outer", "reuse"}

reuses(d, S, i, v) ==
  /\ v = "reuse"
  /\ firstFull(d, S, i) <= Len(d[i].path)
  /\ d[i].path[firstFull(d, S, i)].tag = "SPAN"

insertAt(d, S, i, v) == IF v = "outer" THEN firstFull(d, S, i) ELSE Len(d[i].path) + 1

above(d, S, i, v) == SubSeq(d[i].path, 1, insertAt(d, S, i, v) - 1)

startsRun(d, S, i, v) ==
  \/ (i - 1) \notin S
  \/ above(d, S, i - 1, v) # above(d, S, i, v)
  \/ reuses(d, S, i, v)
  \/ reuses(d, S, i - 1, v)

markerId(d, S, i, v, base) == base + Cardinality({j \in S : j <= i /\ startsRun(d, S, j, v)})

execFontName(d, S, v, base) ==
  [i \in DOMAIN d |->
     LET p == d[i].path
         k == insertAt(d, S, i, v)
     IN IF i \notin S THEN d[i]
        ELSE IF reuses(d, S, i, v)
          THEN Char(d[i].ch, [j \in DOMAIN p |->
                                IF j = firstFull(d, S, i) THEN [p[j] EXCEPT !.mark = TRUE]
                                ELSE p[j]])
        ELSE Char(d[i].ch, SubSeq(p, 1, k - 1)
                             \o <<Elem(markerId(d, S, i, v, base), "SPAN", 0, 0, TRUE)>>
                             \o SubSeq(p, k, Len(p)))]

\* editorRef.current.querySelectorAll(font[face=...], span[style*=...])
fontElements(d) ==
  UNION {{d[i].path[j].id : j \in {j \in DOMAIN d[i].path : d[i].path[j].mark}} : i \in DOMAIN d}

cleanNothing(el) == el

cleanStyleOnly(el) == [el EXCEPT !.style = 0]

\* cleanChildren on one element: clear the inline font-size, and the size
\* attribute of a FONT
cleanChildren(el) ==
  [el EXCEPT !.style = 0, !.size = IF el.tag = "FONT" THEN 0 ELSE el.size]

\* the forEach over fontElements: every marked element is replaced by a new
\* span of the size, and every element below it is cleaned
restylePath(path, size) ==
  [k \in DOMAIN path |->
     IF path[k].mark THEN Elem(path[k].id, "SPAN", size, 0, FALSE)
     ELSE IF \E j \in 1..(k - 1) : path[j].mark THEN cleanChildren(path[k])
     ELSE path[k]]

restyle(d, size) == [i \in DOMAIN d |-> Char(d[i].ch, restylePath(d[i].path, size))]

\* range.insertNode(node) at character offset `at`
insertNode(d, at, c) == SubSeq(d, 1, at) \o <<c>> \o SubSeq(d, at + 1, Len(d))

\* updateSetting(key, value), key # 'darkMode'
updateSetting(prev, key, value) == [prev EXCEPT ![key] = value]

settingsRangeSetsDefault(prev, size) == updateSetting(prev, "editorFontSize", size)

\* the settings after the branch of applyFontSize for a range selection
settingsAfterRange(prev, size) == prev

settingsCaretKept(prev, size) == prev

\* the settings after the branch of applyFontSize for a collapsed selection
settingsAfterCaret(prev, size) == updateSetting(prev, "editorFontSize", size)

\* the selections a user can make in the DOM d: a caret in the text node
\* before or after its place, or a range anchored at its first character
SelectionsOf(where, d) ==
  {[where |-> where, from |-> i, to |-> i, path |-> d[i].path] : i \in 1..Len(d)}
    \cup {[where |-> where, from |-> i - 1, to |-> i - 1, path |-> d[i].path] : i \in 1..Len(d)}
    \cup (IF Len(d) = 0 THEN {[where |-> where, from |-> 0, to |-> 0, path |-> <<>>]} ELSE {})
    \cup UNION {{[where |-> where, from |-> i - 1, to |-> j, path |-> d[i].path] :
                   j \in i..Len(d)} : i \in 1..Len(d)}

Selections(d, o) == SelectionsOf("editor", d) \cup SelectionsOf("outside", o) \cup {NoSelection}

checkSelectionClears(s, current) ==
  IF s.where # "editor" THEN NullSize ELSE effectiveSize(s.path)

\* checkSelectionStyle
checkSelectionStyle(s, current) ==
  IF s.where = "none" THEN NullSize
  ELSE IF s.where # "editor" THEN current
  ELSE effectiveSize(s.path)

\* the documents an entry can hold: plain text; "bc" at 18 inside a container
\* of 14; a FONT with a size attribute around a span; styled siblings
InitDocs ==
  {<<Char("a", <<>>), Char("b", <<>>), Char("c", <<>>)>>,
   <<Char("a", <<Elem(1, "SPAN", 14, 0, FALSE)>>),
     Char("b", <<Elem(1, "SPAN", 14, 0, FALSE), Elem(2, "SPAN", 18, 0, FALSE)>>),
     Char("c", <<Elem(1, "SPAN", 14, 0, FALSE), Elem(2, "SPAN", 18, 0, FALSE)>>)>>,
   <<Char("a", <<>>),
     Char("b", <<Elem(1, "FONT", 0, 18, FALSE)>>),
     Char("c", <<Elem(1, "FONT", 0, 18, FALSE), Elem(2, "SPAN", 14, 0, FALSE)>>)>>,
   <<Char("a", <<Elem(1, "SPAN", 18, 0, FALSE)>>),
     Char("b", <<>>),
     Char("c", <<Elem(2, "SPAN", 14, 0, FALSE), Elem(3, "FONT", 0, 24, FALSE)>>)>>}

\* the text of the page around the editor
InitOutside == <<Char("s", <<>>)>>

Snapshot ==
  [doc |-> doc, outside |-> outside, sel |-> sel, settings |-> settings,
   selectionFontSize |-> selectionFontSize, op |-> styled.op, size |-> styled.size]

InitStyle ==
  /\ AppStart
  /\ stored = <<>>
  /\ remote = <<>>
  /\ MergeQuiet
  /\ CoordQuiet
  /\ LoadQuiet
  /\ DeviceQuiet
  /\ doc \in InitDocs
  /\ outside = InitOutside
  /\ sel \in Selections(doc, outside)
  /\ settings \in InitSettings
  /\ selectionFontSize = checkSelectionStyle(sel, NullSize)
  /\ styled = Ran("none", 0, NoSnapshot, {})
  /\ ops = 0

\* the user moves the selection; the editor's handlers run checkSelectionStyle
Select ==
  /\ ops < MaxOps
  /\ \E s \in Selections(doc, outside) \ {sel} :
       /\ sel' = s
       /\ selectionFontSize' = checkSelectionStyle(s, selectionFontSize)
  /\ styled' = Ran("select", 0, NoSnapshot, {})
  /\ UNCHANGED <<doc, outside, settings, ops, avars, mvars, cvars, lvars, dvars>>

\* the user types a character at the caret; onInput runs checkSelectionStyle
TypeChar ==
  /\ ops < MaxOps
  /\ sel.where = "editor" /\ isCollapsed(sel)
  /\ \E ch \in TypedChars : doc' = insertNode(doc, sel.from, Char(ch, sel.path))
  /\ sel' = [sel EXCEPT !.from = sel.from + 1, !.to = sel.to + 1]
  /\ selectionFontSize' = checkSelectionStyle(sel', selectionFontSize)
  /\ styled' = Ran("type", 0, Snapshot, {})
  /\ ops' = ops + 1
  /\ UNCHANGED <<outside, settings, avars, mvars, cvars, lvars, dvars>>

\* applyFontSize(size), selection.rangeCount === 0
applyNothing(size) ==
  /\ sel.where = "none"
  /\ UNCHANGED <<doc, outside, sel, settings, selectionFontSize>>
  /\ styled' = Ran("applyFontSize", size, Snapshot, {})

\* applyFontSize(size), !selection.isCollapsed.  execCommand acts on editable
\* content only: with the selection outside the editor it marks nothing.
applyRange(size) ==
  /\ sel.where # "none" /\ ~isCollapsed(sel)
  /\ \E v \in Placements :
       LET marked == IF sel.where = "editor"
                       THEN execFontName(doc, Selected(sel), v,
                                         MaxId(ElemIds(doc) \cup ElemIds(outside)))
                       ELSE doc
       IN /\ doc' = restyle(marked, size)
          /\ styled' = Ran("applyFontSize", size, Snapshot, fontElements(marked))
  /\ sel' = IF sel.where = "editor" THEN [sel EXCEPT !.path = doc'[sel.from + 1].path] ELSE sel
  /\ settings' = settingsAfterRange(settings, size)
  /\ selectionFontSize' = size
  /\ UNCHANGED outside

\* applyFontSize(size), selection.isCollapsed
applyCaret(size) ==
  /\ sel.where # "none" /\ isCollapsed(sel)
  /\ settings' = settingsAfterCaret(settings, size)
  /\ selectionFontSize' = size
  /\ LET id == MaxId(ElemIds(doc) \cup ElemIds(outside)) + 1
         c == Char(Zwsp, sel.path \o <<Elem(id, "SPAN", size, 0, FALSE)>>)
     IN /\ IF sel.where = "editor"
             THEN doc' = insertNode(doc, sel.from, c) /\ UNCHANGED outside
             ELSE outside' = insertNode(outside, sel.from, c) /\ UNCHANGED doc
        /\ sel' = [sel EXCEPT !.from = sel.from + 1, !.to = sel.to + 1, !.path = c.path]
        /\ styled' = Ran("applyFontSize", size, Snapshot, {id})

applyFontSize ==
  /\ ops < MaxOps
  /\ ops' = ops + 1
  /\ \E size \in FontSizes : applyNothing(size) \/ applyRange(size) \/ applyCaret(size)
  /\ UNCHANGED <<avars, mvars, cvars, lvars, dvars>>

NextStyle ==
  \/ Select
  \/ TypeChar
  \/ applyFontSize

SpecStyle == InitStyle /\ [][NextStyle]_vars

\* ------------------------------------------------ the merge as a pure function
\* Inputs of fetchAndMergeEntries: a local EntrySet and the rows listAll returns.
\* `id` is the primary key of the remote table, so a row list holds an id once.
LocalEntryOf(id) ==
  {[id |-> id, date |-> id, content |-> c, tags |-> t, updatedAt |-> u] :
     c \in LocalContents, t \in TagLists, u \in Stamps}

RowOf(id) ==
  {[id |-> id, date |-> id, content |-> c, tags |-> t, updated_at |-> u] :
     c \in RemoteContents, t \in TagLists \cup {Null}, u \in {0} \cup Stamps}

\* all sequences over distinct ids whose i-th element is drawn from Of(id)
KeyOrders == {s \in UNION {[1..n -> Ids] : n \in 0..Cardinality(Ids)} :
                \A i, j \in DOMAIN s : i # j => s[i] # s[j]}

EntrySets == UNION {{s \in [DOMAIN k -> UNION {LocalEntryOf(id) : id \in Ids}] :
                       \A i \in DOMAIN k : s[i].id = k[i]} : k \in KeyOrders}

RowLists == UNION {{s \in [DOMAIN k -> UNION {RowOf(id) : id \in Ids}] :
                      \A i \in DOMAIN k : s[i].id = k[i]} : k \in KeyOrders}

NotRun == [done |-> FALSE, val |-> <<>>]

Result(val) == [done |-> TRUE, val |-> val]

InitMerge ==
  /\ AppStart
  /\ stored = <<>>
  /\ remote = <<>>
  /\ mLocal \in EntrySets
  /\ mData \in RowLists
  /\ mFirst = [done |-> FALSE, at |-> 0, val |-> <<>>]
  /\ mAgain = NotRun
  /\ mRerun = NotRun
  /\ CoordQuiet
  /\ StyleQuiet
  /\ LoadQuiet
  /\ DeviceQuiet

\* fetchAndMergeEntries(mLocal) with listAll returning mData, at clock time t
MergeFirst ==
  /\ ~mFirst.done
  /\ \E t \in Clock : mFirst' = [done |-> TRUE, at |-> t, val |-> mergeEntries(mLocal, mData, t)]
  /\ UNCHANGED <<mLocal, mData, mAgain, mRerun, avars>>

\* the result of the first merge merged again with the same rows, not earlier
\* (a trial makes one second run: either this one or MergeRerun)
MergeAgain ==
  /\ mFirst.done /\ ~mAgain.done /\ ~mRerun.done
  /\ \E t \in Clock : t >= mFirst.at /\ mAgain' = Result(mergeEntries(mFirst.val, mData, t))
  /\ UNCHANGED <<mLocal, mData, mFirst, mRerun, avars>>

\* a second run on the same inputs, not earlier
MergeRerun ==
  /\ mFirst.done /\ ~mRerun.done /\ ~mAgain.done
  /\ \E t \in Clock : t >= mFirst.at /\ mRerun' = Result(mergeEntries(mLocal, mData, t))
  /\ UNCHANGED <<mLocal, mData, mFirst, mAgain, avars>>

NextMerge ==
  \/ MergeFirst /\ UNCHANGED <<cvars, svars, lvars, dvars>>
  \/ MergeAgain /\ UNCHANGED <<cvars, svars, lvars, dvars>>
  \/ MergeRerun /\ UNCHANGED <<cvars, svars, lvars, dvars>>

SpecMerge == InitMerge /\ [][NextMerge]_vars

\* ------------------------------------------------------------ merge claims
\* C1: after a successful listAll the result holds, for every id of the remote
\* list, the remote entry when the id is absent locally or the remote
\* updatedAt is strictly greater, and the local entry otherwise (so on a tie).
\* The remote entry is the DiaryEntry mapFromSupabase makes of the row.
C1_MergePicksByUpdatedAt ==
  mFirst.done =>
    \A i \in DOMAIN mData :
      LET r == mapRow(mData[i], mFirst.at)
      IN /\ Has(mFirst.val, r.id)
         /\ Get(mFirst.val, r.id) =
              IF ~Has(mLocal, r.id) \/ r.updatedAt > Get(mLocal, r.id).updatedAt
                THEN r ELSE Get(mLocal, r.id)

\* a merge ran on a tie: same id, equal updatedAt, different content
C1_Witness ==
  /\ mFirst.done
  /\ \E i \in DOMAIN mData :
       /\ Has(mLocal, mData[i].id)
       /\ mData[i].updated_at = Get(mLocal, mData[i].id).updatedAt
       /\ mData[i].content # Get(mLocal, mData[i].id).content

\* C2: the key set of the merge result is the union of the local key set and
\* the remote id set.
C2_MergeKeysAreUnion ==
  mFirst.done => Keys(mFirst.val) = Keys(mLocal) \cup {mData[i].id : i \in DOMAIN mData}

\* a merge ran with an id only local and an id only remote
C2_Witness ==
  /\ mFirst.done
  /\ \E id \in Keys(mLocal) : \A i \in DOMAIN mData : mData[i].id # id
  /\ \E i \in DOMAIN mData : ~Has(mLocal, mData[i].id)

\* C3: merging the result of a merge with the same rows again yields the
\* result of the first merge.
C3_MergeIdempotent ==
  mAgain.done => AsMap(mAgain.val) = AsMap(mFirst.val)

\* C4: two runs of the merge on the same local EntrySet and the same rows,
\* at different clock times, give equal EntrySets.
C4_MergeDeterministic ==
  mRerun.done => AsMap(mRerun.val) = AsMap(mFirst.val)

\* ------------------------------------------------------- reconciler claims
\* the step is the run of handler op (the clock step changes no handler state)
Handled(op) == now' = now /\ last'.op = op

\* the step completed the i-th call in flight
Consumed(i) == i \in DOMAIN calls /\ calls' = RemoveAt(calls, i)

\* the step issued a remote call
Issued == Len(calls') > Len(calls)

\* C5: once a remote call has answered SchemaMissing in a session, no further
\* remote call is issued in that session.
C5_CircuitBreaker ==
  [][schemaSeen => ~Issued]_vars

\* C6: once isRemoteSyncDisabled is true it stays true.
C6_FlagMonotonic ==
  [][isRemoteSyncDisabled => isRemoteSyncDisabled']_vars

\* the flag is set and a sign-in has run since
C6_Witness ==
  isRemoteSyncDisabled /\ last.op = "login"

\* C7: when listAll answers SchemaMissing, fetchAndMergeEntries sets the flag
\* and returns the EntrySet it was given, the Entry Store is not written, and
\* no listAll is issued from then on.
C7_SchemaMissingTrips ==
  [][/\ \A i \in DOMAIN calls :
          (Consumed(i) /\ calls[i].kind = "listAll" /\ Handled("fetchDone")
             /\ last'.resp = "schemaMissing") =>
            /\ isRemoteSyncDisabled'
            /\ fetchResult(calls[i].local, last'.resp, remote, now) = calls[i].local
            /\ last'.effects = <<>>
            /\ UNCHANGED <<stored, entries>>
     /\ (isRemoteSyncDisabled /\ Issued) => calls'[Len(calls')].kind # "listAll"]_vars

\* listAll answered SchemaMissing while the remote table held rows the merge
\* would otherwise have looked at, and a later sign-in issued nothing
C7_Witness ==
  isRemoteSyncDisabled /\ last = Did("login", "none", <<>>) /\ stored # <<>>

\* C8: when listAll fails otherwise (error result or thrown), fetchAndMergeEntries
\* returns the EntrySet it was given, the flag and the Entry Store are unchanged
\* and nothing is issued; a save or delete of a signed-in user with the flag
\* unset still issues its remote call.
C8_OtherErrorSkipsOnce ==
  [][/\ \A i \in DOMAIN calls :
          (Consumed(i) /\ calls[i].kind = "listAll" /\ Handled("fetchDone")
             /\ last'.resp \in {"error", "thrown"}) =>
            /\ fetchResult(calls[i].local, last'.resp, remote, now) = calls[i].local
            /\ last'.effects = <<>>
            /\ ~Issued
            /\ UNCHANGED <<isRemoteSyncDisabled, stored, entries>>
     /\ (Handled("handleSave") \/ Handled("autoSave")) =>
          (last'.effects = <<"saveEntries", "upsert">>
             <=> (session # NoSession /\ ~isRemoteSyncDisabled))
     /\ Handled("handleDelete") =>
          (last'.effects = <<"saveEntries", "delete">>
             <=> (session # NoSession /\ ~isRemoteSyncDisabled))]_vars

\* a listAll of this session failed with another error and sync is still on
C8_Witness ==
  /\ last.op = "fetchDone" /\ last.resp \in {"error", "thrown"}
  /\ session # NoSession /\ ~isRemoteSyncDisabled

\* C9: after a successful listAll the merged EntrySet is written to the Entry
\* Store if and only if it differs from the local EntrySet that was loaded.
C9_PersistIffDiffers ==
  [][\A i \in DOMAIN calls :
       (Consumed(i) /\ calls[i].kind = "listAll" /\ Handled("fetchDone")
          /\ last'.resp = "ok") =>
         LET merged == mergeEntries(calls[i].local, remote, now)
         IN IF AsMap(merged) # AsMap(calls[i].local)
              THEN last'.effects = <<"saveEntries">> /\ stored' = merged
              ELSE last'.effects = <<>> /\ stored' = stored]_vars

\* a successful listAll that returned rows and changed nothing, so nothing was written
C9_Witness ==
  last = Did("fetchDone", "ok", <<>>) /\ remote # <<>> /\ stored # <<>>

TimerElapsed == Handled("autoSave") \/ Handled("timerNoop")

\* C12: when the debounce timer elapses and the editor document equals the
\* content of the persisted entry of the current date key ('' when there is
\* none), nothing is written to the Entry Store, no upsert is issued and the
\* entry keeps its updatedAt; so the autosave saves only when the document differs.
C12_NoopSaveSuppressed ==
  [][(TimerElapsed /\ editorHtml = contentOf(stored, dateKey)) =>
       /\ last' = Did("timerNoop", "none", <<>>)
       /\ ~Issued
       /\ UNCHANGED <<stored, entries, remote>>]_vars

\* the timer elapsed over a document equal to a saved, non-empty entry
C12_Witness ==
  /\ last.op = "timerNoop" /\ session # NoSession
  /\ Has(stored, dateKey) /\ editorHtml = Get(stored, dateKey).content /\ editorHtml # ""

\* C13: an input event leaves exactly one timer pending, set at the time of
\* the event; at no time more than one timer is pending; and an autosave writes
\* only when a full debounce period has passed since the last input event.
C13_Debounce ==
  /\ timers <= 1
  /\ last.op = "input" => (timer /\ timers = 1 /\ timerAt = inputAt)
  /\ last.op = "autoSave" =>
       /\ Has(stored, dateKey)
       /\ inputAt + Debounce <= Get(stored, dateKey).updatedAt

\* an autosave wrote the document typed a debounce period earlier
C13_Witness ==
  /\ last.op = "autoSave" /\ inputAt > 0
  /\ Get(stored, dateKey).updatedAt = inputAt + Debounce

\* C15 as stated: the Save button can be used in every coordinator state, the
\* Saving state included.
C15_ManualSaveFromAnyState ==
  session # NoSession => ~SaveButtonDisabled

\* C15 amended: a manual save is requested only while the saving indicator is
\* off; in every such state of a signed-in user, timer pending or not, it can be
\* requested, writes the entry at once, sets the indicator exactly when it
\* issues an upsert, and replaces the pending timer by one set at the time of
\* the save; when that timer elapses over the same document nothing is written.
C15_ManualSaveWhenNotSaving ==
  [][/\ (session # NoSession /\ ~saving /\ nextCall <= MaxCalls) => ENABLED AutoManualSave
     /\ Handled("handleSave") =>
          /\ ~saving
          /\ Has(stored', dateKey)
          /\ Get(stored', dateKey).content = editorHtml
          /\ Get(stored', dateKey).updatedAt = now
          /\ saving' <=> Issued
          /\ timers' = 1
          /\ timerAt' = now
     /\ (last.op = "handleSave" /\ TimerElapsed) =>
          /\ now >= timerAt + Debounce
          /\ last' = Did("timerNoop", "none", <<>>)
          /\ ~Issued
          /\ UNCHANGED <<stored, entries, remote>>]_vars

\* a manual save made before the pending timer was due, and the timer set by
\* the save elapsed since without a write
C15_Witness ==
  /\ last.op = "timerNoop" /\ session # NoSession
  /\ Has(stored, dateKey) /\ timerAt = Get(stored, dateKey).updatedAt
  /\ timerAt > 0 /\ timerAt < Debounce /\ inputAt = timerAt
  /\ timers = 0

\* C14: every save that set the saving indicator is followed by a state where
\* it is false again, whatever the answers to the upserts are, given that
\* every upsert in flight is answered.
C14_SavingReturnsToIdle ==
  saving ~> ~saving

\* an upsert failed and the indicator is off with nothing in flight
C14_Witness ==
  /\ last.op = "upsertDone" /\ last.resp = "error"
  /\ ~saving /\ calls = <<>>

\* --------------------------------------------------- style applicator claims
\* applyFontSize ran last, on a range selection / on a collapsed selection
AppliedToRange ==
  styled.op = "applyFontSize" /\ styled.pre.sel.where # "none" /\ ~isCollapsed(styled.pre.sel)

AppliedAtCaret ==
  styled.op = "applyFontSize" /\ styled.pre.sel.where # "none" /\ isCollapsed(styled.pre.sel)

\* the DOM the selection of s lies in
DomOf(s, d, o) == IF s.where = "editor" THEN d ELSE o

\* C16: applyFontSize on a range selection leaves editorFontSize and every
\* other field of the settings as they were.
C16_RangeKeepsSettings ==
  AppliedToRange => settings = styled.pre.settings

\* a range of the editor was restyled to a size other than the default setting
C16_Witness ==
  /\ AppliedToRange /\ styled.pre.sel.where = "editor"
  /\ doc # styled.pre.doc
  /\ styled.size # settings.editorFontSize

\* C17: applyFontSize(size) on a collapsed selection sets editorFontSize to
\* size and changes no other setting; it inserts at the caret one zero-width
\* character inside one new span of that size and puts the caret right after
\* it inside the span; every character that was there keeps its text and its
\* elements; and a character typed next is in that span and has the size.
C17_CaretSetsDefaultAndMarker ==
  /\ AppliedAtCaret =>
       LET pre == styled.pre
           at == pre.sel.from
           was == DomOf(pre.sel, pre.doc, pre.outside)
           is == DomOf(pre.sel, doc, outside)
       IN /\ settings = [pre.settings EXCEPT !.editorFontSize = styled.size]
          /\ Len(is) = Len(was) + 1
          /\ is[at + 1].ch = Zwsp
          /\ Len(is[at + 1].path) = Len(pre.sel.path) + 1
          /\ SubSeq(is[at + 1].path, 1, Len(pre.sel.path)) = pre.sel.path
          /\ is[at + 1].path[Len(pre.sel.path) + 1].style = styled.size
          /\ effectiveSize(is[at + 1].path) = styled.size
          /\ Cardinality(ElemIds(is)) = Cardinality(ElemIds(was)) + 1
          /\ sel = [where |-> pre.sel.where, from |-> at + 1, to |-> at + 1,
                    path |-> is[at + 1].path]
          /\ \A i \in DOMAIN was : is[IF i <= at THEN i ELSE i + 1] = was[i]
  /\ (/\ styled.op = "type"
      /\ styled.pre.op = "applyFontSize"
      /\ styled.pre.sel.where = "editor" /\ isCollapsed(styled.pre.sel)) =>
       LET at == styled.pre.sel.from
       IN /\ doc[at].ch = Zwsp
          /\ doc[at + 1].ch \in TypedChars
          /\ doc[at + 1].path = doc[at].path
          /\ effectiveSize(doc[at + 1].path) = styled.pre.size

\* a character was typed after a size was applied at a caret inside text of
\* another size
C17_Witness ==
  /\ styled.op = "type" /\ styled.pre.op = "applyFontSize"
  /\ styled.pre.sel.where = "editor" /\ isCollapsed(styled.pre.sel)
  /\ styled.pre.sel.from > 1
  /\ effectiveSize(doc[styled.pre.sel.from - 1].path) \notin {0, styled.pre.size}
  /\ Len(doc[styled.pre.sel.from].path) > 1

\* C18: after applyFontSize(size) on a range of the editor the text is the
\* same, every character of the range has the size, and every other character
\* has the size it had.
C18_RangeStyleIsolation ==
  (AppliedToRange /\ styled.pre.sel.where = "editor") =>
    /\ textOf(doc) = textOf(styled.pre.doc)
    /\ \A i \in DOMAIN doc :
         effectiveSize(doc[i].path) =
           IF i \in Selected(styled.pre.sel) THEN styled.size
           ELSE effectiveSize(styled.pre.doc[i].path)

\* part of the text of a sized element was restyled to another size
C18_Witness ==
  /\ AppliedToRange /\ styled.pre.sel.where = "editor"
  /\ \E i \in Selected(styled.pre.sel), j \in DOMAIN doc \ Selected(styled.pre.sel) :
       /\ effectiveSize(styled.pre.doc[i].path) \notin {0, styled.size}
       /\ effectiveSize(styled.pre.doc[j].path) = effectiveSize(styled.pre.doc[i].path)

\* C19: after applyFontSize(size) on a range, no element inside a span the
\* operation created carries a font size of its own, as inline style or as
\* size attribute.
C19_NoStaleSizeInside ==
  (AppliedToRange /\ styled.pre.sel.where = "editor") =>
    \A i \in DOMAIN doc :
      \A j, l \in DOMAIN doc[i].path :
        (j < l /\ doc[i].path[j].id \in styled.created) =>
          \/ doc[i].path[l].id \in styled.created
          \/ doc[i].path[l].style = 0 /\ doc[i].path[l].size = 0

\* a new span was put around an element that had a size of its own
C19_Witness ==
  /\ AppliedToRange /\ styled.pre.sel.where = "editor"
  /\ \E i \in DOMAIN doc :
       \E j, l \in DOMAIN doc[i].path :
         /\ j < l /\ doc[i].path[j].id \in styled.created
         /\ \E k \in DOMAIN styled.pre.doc[i].path :
              /\ styled.pre.doc[i].path[k].id = doc[i].path[l].id
              /\ styled.pre.doc[i].path[k].size # 0

\* C20: with the selection outside the editor, applyFontSize changes neither
\* the document, nor the page outside it, nor editorFontSize, nor the
\* reported selection size.
C20_OutsideIsNoop ==
  (styled.op = "applyFontSize" /\ styled.pre.sel.where = "outside") =>
    /\ doc = styled.pre.doc
    /\ outside = styled.pre.outside
    /\ settings.editorFontSize = styled.pre.settings.editorFontSize
    /\ selectionFontSize = styled.pre.selectionFontSize

\* the size of the innermost element around the anchor that carries a font
\* size, 0 (the size of the editor's style sheet) when there is none
AnchorSize(s) ==
  LET sized == {k \in DOMAIN s.path :
                  s.path[k].style # 0 \/ (s.path[k].tag = "FONT" /\ s.path[k].size # 0)}
      k == CHOOSE n \in sized : \A m \in sized : m <= n
  IN IF sized = {} THEN 0
     ELSE IF s.path[k].style # 0 THEN s.path[k].style ELSE s.path[k].size

\* C21 as stated: when the selection moves outside the editor document, the
\* selection-style query reports unset.
C21_OutsideReportsUnset ==
  [][(styled'.op = "select" /\ sel'.where = "outside") => selectionFontSize' = NullSize]_vars

\* C21 amended: when the selection moves, the query reports the effective font
\* size at the anchor for a selection inside the editor, unset when there is
\* no selection, and for a selection outside the editor the size it reported
\* before.
C21_SelectionStyleQuery ==
  [][styled'.op = "select" =>
       selectionFontSize' =
         IF sel'.where = "editor" THEN AnchorSize(sel')
         ELSE IF sel'.where = "none" THEN NullSize
         ELSE selectionFontSize]_vars

\* the selection moved from sized text to the page outside the editor and the
\* size reported for the text is still reported
C21_Witness ==
  /\ styled.op = "select" /\ sel.where = "outside"
  /\ selectionFontSize \in FontSizes

\* ------------------------------------------------ claims on concurrent completions
\* the step is a save, by the Save button or by the debounce timer
Saved == Handled("handleSave") \/ Handled("autoSave")

\* C24: when a listAll that was in flight during a save completes right after
\* it, the Entry Store and the in-memory EntrySet still hold for the saved id
\* an entry whose updatedAt is not smaller than the one the save wrote.
C24_SaveSurvivesMerge ==
  [][(last.op \in {"handleSave", "autoSave"} /\ Handled("fetchDone")) =>
       /\ Has(stored', dateKey) /\ Has(entries', dateKey)
       /\ Get(stored', dateKey).updatedAt >= Get(stored, dateKey).updatedAt
       /\ Get(entries', dateKey).updatedAt >= Get(stored, dateKey).updatedAt]_vars

\* C25: while the user is signed in and the editor holds typed text that
\* differs from the stored entry of the current date, with the debounce timer
\* still pending, the completion of a fetch-and-merge leaves the editor
\* document as it is.
C25_UnsavedTextKept ==
  [][(/\ last.op = "input" /\ timer /\ session # NoSession
      /\ editorHtml # contentOf(stored, dateKey)
      /\ Handled("fetchDone")) => editorHtml' = editorHtml]_vars

\* C26: a save of an entry that exists keeps its id, date and tags, in the
\* Entry Store and in the row it upserts.
C26_SaveKeepsTags ==
  [][(Saved /\ Has(entries, dateKey)) =>
       LET was == Get(entries, dateKey)
           is == Get(stored', dateKey)
       IN /\ is.id = was.id /\ is.date = was.date /\ is.tags = was.tags
          /\ Issued => calls'[Len(calls')].entry.tags = was.tags]_vars

\* C27: when an upsert completes while another upsert issued by a save is
\* still in flight, the saving indicator stays on.
C27_SavingWhileInFlight ==
  [][(Handled("upsertDone") /\ \E j \in DOMAIN calls' : calls'[j].kind = "upsert") =>
       saving']_vars

\* C28: at every sign-in the flag is false and the data loading effect issues
\* listAll, whatever happened in earlier sessions.
C28_FlagFalseAtSessionStart ==
  [][Handled("login") => (~isRemoteSyncDisabled' /\ last'.effects = <<"listAll">>)]_vars

\* ------------------------------------------------- the Entry Store loaders
\* A localStorage text is a sequence of tokens: an object is <<"{">>, its
\* members and <<"}">>, the JSON literal null is <<"null">>, and a member is a
\* tuple that starts with its key.  A text cut short is not JSON.

\* JSON.parse(text): the members of an object, null, or a SyntaxError
JSONparse(text) ==
  IF text = << <<"null">> >>
    THEN [threw |-> FALSE, isNull |-> TRUE, members |-> <<>>]
  ELSE IF /\ Len(text) >= 2 /\ text[1] = <<"{">> /\ text[Len(text)] = <<"}">>
          /\ \A i \in 2..(Len(text) - 1) : Len(text[i]) > 1
    THEN [threw |-> FALSE, isNull |-> FALSE, members |-> SubSeq(text, 2, Len(text) - 1)]
  ELSE [threw |-> TRUE, isNull |-> FALSE, members |-> <<>>]

\* saveEntries: localStorage.setItem(key, JSON.stringify(entries))
storeText(obj) == << <<"{">> >> \o JSONstringify(obj) \o << <<"}">> >>

\* the EntrySet a parsed object is
entriesOf(members) ==
  [i \in DOMAIN members |->
     [id |-> members[i][2][2], date |-> members[i][3][2], content |-> members[i][4][2],
      tags |-> members[i][5][2], updatedAt |-> members[i][6][2]]]

\* JSON.stringify of an object that holds the fields `keys` of the settings s
settingsText(s, keys) ==
  << <<"{">> >>
    \o SelectSeq(<< <<"darkMode", s.darkMode>>, <<"editorFont", s.editorFont>>,
                    <<"editorFontSize", s.editorFontSize>>, <<"editorColor", s.editorColor>>,
                    <<"sidebarOpen", s.sidebarOpen>> >>,
                 LAMBDA m : m[1] \in keys)
    \o << <<"}">> >>

\* { ...defaults, ...parsed }
spread(defaults, members) ==
  [k \in DOMAIN defaults |->
     IF \E i \in DOMAIN members : members[i][1] = k
       THEN members[CHOOSE i \in DOMAIN members :
                      /\ members[i][1] = k
                      /\ \A j \in DOMAIN members : members[j][1] = k => j <= i][2]
       ELSE defaults[k]]

rethrown(threw) == threw

\* try { ... } catch (error) { return <fallback> }: what the caller sees raised
caught(threw) == FALSE

loadEntries(item) ==
  IF item.access = "denied" THEN [done |-> TRUE, raised |-> caught(TRUE), value |-> <<>>]
  ELSE IF ~item.present \/ item.text = <<>> THEN [done |-> TRUE, raised |-> FALSE, value |-> <<>>]
  ELSE LET p == JSONparse(item.text)
       IN IF p.threw THEN [done |-> TRUE, raised |-> caught(TRUE), value |-> <<>>]
          ELSE IF p.isNull THEN [done |-> TRUE, raised |-> FALSE, value |-> Null]
          ELSE [done |-> TRUE, raised |-> FALSE, value |-> entriesOf(p.members)]

loadSettings(item) ==
  IF item.access = "denied"
    THEN [done |-> TRUE, raised |-> caught(TRUE), value |-> DefaultSettings]
  ELSE IF ~item.present \/ item.text = <<>>
    THEN [done |-> TRUE, raised |-> FALSE, value |-> DefaultSettings]
  ELSE LET p == JSONparse(item.text)
       IN IF p.threw THEN [done |-> TRUE, raised |-> caught(TRUE), value |-> DefaultSettings]
          ELSE [done |-> TRUE, raised |-> FALSE, value |-> spread(DefaultSettings, p.members)]

\* what the key can hold: nothing, no access to localStorage, the literal
\* null, or a text saveEntries wrote, whole or cut short
EntryItems ==
  {NoItem, Item("denied", FALSE, <<>>), Item("ok", TRUE, << <<"null">> >>)}
    \cup UNION {{Item("ok", TRUE, SubSeq(storeText(p[1]), 1, n)) :
                   n \in 0..Len(storeText(p[1]))} : p \in InitStores}

\* the same for a text saveSettings wrote, or one an earlier version wrote with
\* some of the fields
SettingsItems ==
  {NoItem, Item("denied", FALSE, <<>>), Item("ok", TRUE, << <<"null">> >>)}
    \cup UNION {UNION {{Item("ok", TRUE, SubSeq(settingsText(s, keys), 1, n)) :
                          n \in 0..Len(settingsText(s, keys))} :
                         keys \in SUBSET DOMAIN DefaultSettings} : s \in InitSettings}

InitLoad ==
  /\ AppStart
  /\ stored = <<>>
  /\ remote = <<>>
  /\ MergeQuiet
  /\ CoordQuiet
  /\ StyleQuiet
  /\ DeviceQuiet
  /\ entriesBlob \in EntryItems
  /\ settingsBlob \in SettingsItems
  /\ loadedEntries = NotLoaded
  /\ loadedSettings = NotLoaded

\* const localData = loadEntries()
LoadEntries ==
  /\ ~loadedEntries.done
  /\ loadedEntries' = loadEntries(entriesBlob)
  /\ UNCHANGED <<entriesBlob, settingsBlob, loadedSettings, avars, mvars, cvars, svars, dvars>>

\* useState<AppSettings>(loadSettings())
LoadSettings ==
  /\ ~loadedSettings.done
  /\ loadedSettings' = loadSettings(settingsBlob)
  /\ UNCHANGED <<entriesBlob, settingsBlob, loadedEntries, avars, mvars, cvars, svars, dvars>>

NextLoad ==
  \/ LoadEntries
  \/ LoadSettings

SpecLoad == InitLoad /\ [][NextLoad]_vars

\* the item is absent, unreadable, or its text is not JSON
Unusable(item) == item.access = "denied" \/ ~item.present \/ JSONparse(item.text).threw

\* C22: loadEntries returns the empty EntrySet when the entries item is missing
\* or cannot be parsed, and the EntrySet that was saved when the text is whole;
\* loadSettings returns the defaults when the settings item is missing or
\* cannot be parsed, and otherwise the defaults with every stored field in
\* place of its default; neither raises an error.
C22_LoadsFailSoft ==
  /\ loadedEntries.done =>
       /\ ~loadedEntries.raised
       /\ Unusable(entriesBlob) => loadedEntries.value = <<>>
       /\ \A p \in InitStores :
            entriesBlob = Item("ok", TRUE, storeText(p[1])) => loadedEntries.value = p[1]
  /\ loadedSettings.done =>
       /\ ~loadedSettings.raised
       /\ Unusable(settingsBlob) => loadedSettings.value = DefaultSettings
       /\ \A s \in InitSettings, keys \in SUBSET DOMAIN DefaultSettings :
            settingsBlob = Item("ok", TRUE, settingsText(s, keys)) =>
              loadedSettings.value =
                [k \in DOMAIN DefaultSettings |-> IF k \in keys THEN s[k] ELSE DefaultSettings[k]]

\* both loaders ran: on an entries text cut short, and on a settings text that
\* holds some of the fields, with values other than the defaults
C22_Witness ==
  /\ loadedEntries.done /\ loadedSettings.done
  /\ entriesBlob.present /\ Len(entriesBlob.text) > 1 /\ JSONparse(entriesBlob.text).threw
  /\ ~Unusable(settingsBlob)
  /\ loadedSettings.value.editorFontSize # DefaultSettings.editorFontSize
  /\ loadedSettings.value.editorFont = DefaultSettings.editorFont

\* ------------------------------------------------- one device, two principals
\* A device nobody has used yet, with two principals who sign in one after the
\* other, write and change dates but delete nothing; every remote call is
\* answered with success.  `made` holds, for each principal, the entries that appeared in the
\* Entry Store while the principal was signed in, by a save or by a merge.
Principals == {"u1", "u2"}

keyStale(old, new) == old

\* the dateKey the pending timeout closes over after the date changed: the
\* effect depends on dateKey, so its cleanup clears the timeout and a new one
\* is set by the new render
keyAfterDateChange(old, new) == new

\* the auto-save effect ran again: one of its dependencies editorContent,
\* handleSave (which depends on session), entries changed
effectReran == editorHtml' # editorHtml \/ entries' # entries \/ session' # session

Track ==
  /\ made' = IF session = NoSession THEN made
             ELSE made \cup {<<session, stored'[i]>> :
                               i \in {j \in DOMAIN stored' :
                                        \A k \in DOMAIN stored : stored[k] # stored'[j]}}
  /\ timerKey' = IF dateKey' # dateKey THEN keyAfterDateChange(timerKey, dateKey')
                 ELSE IF effectReran THEN dateKey'
                 ELSE timerKey
  /\ UNCHANGED <<cvars, svars, lvars>>

InitDevice ==
  /\ AppStart
  /\ stored = <<>>
  /\ remote = <<>>
  /\ MergeQuiet
  /\ CoordQuiet
  /\ StyleQuiet
  /\ LoadQuiet
  /\ DeviceQuiet

NextDevice ==
  \/ (\E u \in Principals : Login(u)) /\ Track
  \/ Logout /\ Track
  \/ Input /\ Track
  \/ SelectDate /\ Track
  \/ ManualSave /\ Track
  \/ timeoutCallback(timerKey) /\ Track
  \/ Tick /\ Track
  \/ FetchDone /\ last'.resp = "ok" /\ Track
  \/ UpsertDone /\ last'.resp = "ok" /\ Track

SpecDevice == InitDevice /\ [][NextDevice]_vars

\* C23: when an upsert completes after a later upsert for the same id has
\* already written its row, the remote table keeps the row with the greater
\* updatedAt.  (On a device that starts with an empty remote table every row
\* was written by an upsert, and the clock never runs backwards, so the row
\* being newer than the completing write means the writes completed in the
\* opposite order to the one they were issued in.)
C23_NewerWriteSurvives ==
  [][\A i \in DOMAIN calls :
       (/\ Consumed(i) /\ calls[i].kind = "upsert" /\ Handled("upsertDone")
        /\ Has(remote, calls[i].key)
        /\ Get(remote, calls[i].key).updated_at > calls[i].entry.updatedAt) =>
         Get(remote', calls[i].key).updated_at = Get(remote, calls[i].key).updated_at]_vars

\* C29: the EntrySet of a signed-in principal holds no entry that appeared in
\* the Entry Store during the sessions of another principal only.
C29_NoLeakBetweenPrincipals ==
  session # NoSession =>
    \A i \in DOMAIN entries :
      (\E u \in Principals \ {session} : <<u, entries[i]>> \in made) =>
        <<session, entries[i]>> \in made

\* C30: every entry a save adds to the Entry Store has id = date = the current
\* date key and the editor document as content, and every entry in the store
\* has id = date; a date change replaces the editor document by the stored
\* content of the new date; and the pending timer always closes over the
\* current date key, so a timer set for one date never writes after a change
\* to another.
C30_SaveFiledUnderItsDate ==
  [][/\ Saved =>
          /\ Has(stored', dateKey)
          /\ \A i \in DOMAIN stored' :
               /\ stored'[i].id = stored'[i].date
               /\ (\A k \in DOMAIN entries : entries[k] # stored'[i]) =>
                    /\ stored'[i].id = dateKey
                    /\ stored'[i].content = editorHtml
     /\ dateKey' # dateKey => editorHtml' = contentOf(entries', dateKey')
     /\ timerKey' = dateKey']_vars

\* after a save on one date the user changed to another date and typed, and
\* the timer saved that text under the new date
C30_Witness ==
  /\ last.op = "autoSave" /\ dateKey # "d1"
  /\ Has(stored, "d1") /\ Has(stored, dateKey)
  /\ Get(stored, dateKey).content = editorHtml
  /\ Get(stored, dateKey).content # Get(stored, "d1").content

====
